---- MODULE Spec2Model ----
(***************************************************************************)
(* Client-side controller of the document-review pipeline (LegalGuard ID). *)
(* The session globals, the click handlers (one asynchronous task per      *)
(* invocation, suspended at each fetch), the delayed success callbacks     *)
(* (setTimeout) and the report renderer's score classification.            *)
(*                                                                         *)
(* Buttons are clickable only while the section that holds them is the     *)
(* displayed one; the navigation items are always clickable.  The list     *)
(* tables of History and Documents are represented by serverDocs: a row    *)
(* exists for every document the backend holds.  A success response whose  *)
(* body has another shape than expected is drawn for the module requests   *)
(* (a body without module_content); the other bodies are well-shaped.      *)
(*                                                                         *)
(* The cleanup view's annotation overlay and the document editor follow:   *)
(* a text is a sequence of tokens (a character the code treats specially,  *)
(* or a run of letters), the editing surface is the Quill instance with    *)
(* the HTML its root holds, and a save is a task suspended at its fetch.   *)
(* What the backend stores is not changed by a save in this model.         *)
(***************************************************************************)
EXTENDS Integers, Sequences, FiniteSets, Bags, TLC

\* ---------------------------------------------------------------- bounds
\* document ids the backend can hold
MaxDocs == 2
\* handler invocations suspended at a fetch at the same time
MaxTasks == 2
\* setTimeout callbacks pending at the same time
MaxTimers == 1
\* largest compliance score drawn for the renderer
MaxScore == 100
\* save requests in flight at the same time
MaxSaves == 1
\* pending resets of the editor status (setTimeout of a successful save)
MaxStatusTimers == 1
\* tokens of a stored text drawn for the promotion of plain text
MaxPlainLen == 3
\* tokens of a base text drawn for the annotation overlay
MaxTextLen == 2
\* issues of a cleanup result drawn for the annotation overlay
MaxIssues == 2
\* characters an issue excerpt drawn for the cards has beyond the display length
MaxExcess == 2

\* ------------------------------------------------------ program constants
ShowDelay == 500
ReportDelay == 800
CompliantMin == 90
MostlyMin == 70
ReviewMin == 50
\* the display length of an issue's excerpt
DisplayLength == 100

Docs == 1..MaxDocs

\* null / undefined of a session pointer; a present value object x is <<x>>
Null == <<>>
Some(x) == <<x>>
\* report.compliance_score absent
NoScore == -1

VARIABLES
    section,            \* the section showSection displayed last
    documentId,         \* 0 is null
    trainingModule,     \* Null or <<[document_id, has_content]>>
    complianceReport,   \* Null or <<[document_id, compliance_score]>>
    cleanupResult,      \* Null or <<the cleanup result object>>
    progress,           \* width of #main-progress, in percent
    statusLabel,        \* text of #status-label
    tasks,              \* bag of the handler invocations suspended at an await
    timers,             \* pending setTimeout callbacks, in scheduling order
    serverDocs,         \* documents the backend holds
    alerts,             \* alert() dialogs raised by the step taken last
    serverCleanups,     \* the cleanup result the backend returns per document
    originalContent,    \* innerHTML assigned to #original-content
    issuesList,         \* the cards of #cleanup-issues-list
    editorInstance,     \* Null or <<[html]>>: the Quill instance and its root
    liveSurfaces,       \* Quill toolbars and editors present in the DOM
    currentEditorLanguage,
    editorStatus,       \* text and class of #editor-status
    saves,              \* bag of the save invocations suspended at the fetch
    statusTimers        \* pending setTimeout(() => updateEditorStatus('Ready'))

editorVars == <<editorInstance, liveSurfaces, currentEditorLanguage,
                editorStatus, saves, statusTimers>>

vars == <<section, documentId, trainingModule, complianceReport, cleanupResult,
          progress, statusLabel, tasks, timers, serverDocs, alerts,
          serverCleanups, originalContent, issuesList, editorVars>>

session == <<documentId, trainingModule, complianceReport, cleanupResult>>

\* outcomes of a fetch as the handler sees them: a success status with a body of
\* the expected shape; a success status with parseable JSON of another shape;
\* a non-success status; a rejected fetch; a body res.json() cannot parse
Failures == {"notok", "transport", "shape"}
Outcomes == {"ok"} \cup Failures
ModuleOutcomes == {"ok", "malformed"} \cup Failures

\* documents uploaded before the page was loaded
InitialDocs == {1}

\* scores the backend returns in the workflow
SampleScores == {95}

\* ------------------------------------------------------------ the renderer
StatusLabelAt90(score) ==
    IF score > CompliantMin THEN "COMPLIANT"
    ELSE IF score >= MostlyMin THEN "MOSTLY COMPLIANT"
    ELSE IF score >= ReviewMin THEN "NEEDS REVIEW"
    ELSE "NON-COMPLIANT"

\* renderComplianceReport: the status text for a score
StatusLabel(score) ==
    IF score >= CompliantMin THEN "COMPLIANT"
    ELSE IF score >= MostlyMin THEN "MOSTLY COMPLIANT"
    ELSE IF score >= ReviewMin THEN "NEEDS REVIEW"
    ELSE "NON-COMPLIANT"

\* const score = report.compliance_score || 0
ScoreOf(report) ==
    IF report.compliance_score = NoScore THEN 0 ELSE report.compliance_score

renderComplianceReport(report) == StatusLabel(ScoreOf(report))

\* ------------------------------------------------------------------- text
\* A text is a sequence of tokens.  A token is a character the code treats
\* specially or a run of letters of two letters or more.
Whitespace == {" ", "\n", "\t"}
\* runs of capital letters
UpperWords == {"PASAL", "KONTRAK"}
\* /^(PASAL|ARTICLE|BAB|CHAPTER)/i
Markers == {"PASAL", "ARTICLE", "BAB", "CHAPTER", "pasal", "article", "bab", "chapter"}
Digits == {"1", "2"}

RECURSIVE Flatten(_)
Flatten(pieces) ==
    IF pieces = <<>> THEN <<>>
    ELSE IF Len(pieces) = 1 THEN pieces[1]
    ELSE LET half == Len(pieces) \div 2
         IN  Flatten(SubSeq(pieces, 1, half))
                \o Flatten(SubSeq(pieces, half + 1, Len(pieces)))

RECURSIVE TrimStart(_)
TrimStart(text) ==
    IF text # <<>> /\ Head(text) \in Whitespace THEN TrimStart(Tail(text)) ELSE text

RECURSIVE TrimEnd(_)
TrimEnd(text) ==
    IF text # <<>> /\ text[Len(text)] \in Whitespace
    THEN TrimEnd(SubSeq(text, 1, Len(text) - 1))
    ELSE text

\* String.prototype.trim
Trim(text) == TrimEnd(TrimStart(text))

\* an element written as markup
Tag(name) == <<"<", name, ">">>
Entity(name) == <<"&", name, ";">>

\* what div.innerHTML reads after div.textContent = the character
EscapeToken(c) ==
    CASE c = "&" -> Entity("amp")
      [] c = "<" -> Entity("lt")
      [] c = ">" -> Entity("gt")
      [] OTHER -> <<c>>

escapeHtml(text) == Flatten([i \in 1..Len(text) |-> EscapeToken(text[i])])

\* the chain of global replaces of formatDocumentText, for one character
FormatToken(c) ==
    CASE c = "<" -> Entity("lt")
      [] c = ">" -> Entity("gt")
      [] c = "\n" -> Tag("br")
      [] c = "\t" -> Entity("nbsp") \o Entity("nbsp") \o Entity("nbsp") \o Entity("nbsp")
      [] OTHER -> <<c>>

formatDocumentText(text) ==
    Flatten([i \in 1..Len(text) |-> FormatToken(text[i])])

\* ------------------------------------------------- the annotation overlay
\* issue.type of an issue that carries none: typeMap[undefined] reads the
\* property named "undefined"
NoType == "undefined"

\* Names that typeMap[type] finds on every object literal, which inherits
\* them from Object.prototype (two of them), and what a template literal
\* prints for the function read under such a name. The value is truthy, so
\* `|| fallback` does not replace it.
InheritedKeys == {"constructor", "toString"}

Inherited(key) ==
    IF key = "constructor" THEN "function Object() { [native code] }"
    ELSE "function toString() { [native code] }"

getIssueHighlightClass(type) ==
    CASE type = "terminology" -> "highlight-terminology"
      [] type = "deletion" -> "highlight-deletion"
      [] type = "formatting" -> "highlight-formatting"
      [] type = "party_label" -> "highlight-party"
      [] type = "arbitration" -> "highlight-arbitration"
      [] type = "signature" -> "highlight-signature"
      [] type \in InheritedKeys -> Inherited(type)
      [] OTHER -> "highlight-general"

\* where pattern occurs in text
Occurrences(text, pattern) ==
    {i \in 1..(Len(text) - Len(pattern) + 1) :
        SubSeq(text, i, i + Len(pattern) - 1) = pattern}

\* text.replace(pattern, replacement) with a string pattern: the first
\* occurrence only
ReplaceFirst(text, pattern, replacement) ==
    LET hits == Occurrences(text, pattern)
    IN  IF hits = {} THEN text
        ELSE LET i == CHOOSE h \in hits : \A g \in hits : h <= g
             IN  SubSeq(text, 1, i - 1) \o replacement
                    \o SubSeq(text, i + Len(pattern), Len(text))

\* `<mark class="${highlightClass}" title="${escapeHtml(issue.rule)}">`
MarkOpen(highlightClass, title) ==
    <<"<", "mark", " ", "class", "=", "\"", highlightClass, "\"", " ",
      "title", "=", "\"">> \o title \o <<"\"", ">">>

MarkClose == Tag("/mark")

\* the body of issues.forEach in renderCleanupResults
HighlightIssue(originalText, issue) ==
    IF issue.original_text = <<>> THEN originalText
    ELSE ReplaceFirst(originalText, issue.original_text,
            MarkOpen(getIssueHighlightClass(issue.type), escapeHtml(issue.rule))
                \o escapeHtml(issue.original_text) \o MarkClose)

RECURSIVE HighlightIssues(_, _)
HighlightIssues(originalText, issues) ==
    IF issues = <<>> THEN originalText
    ELSE HighlightIssues(HighlightIssue(originalText, Head(issues)), Tail(issues))

PreOpen == <<"<", "pre", " ", "class", "=", "\"", "document-text", "\"", ">">>

\* renderCleanupResults: the innerHTML assigned to #original-content
renderCleanupResults(result) ==
    PreOpen
        \o formatDocumentText(HighlightIssues(result.original_content, result.issues))
        \o Tag("/pre")

\* --------------------------------------------------------- the issue cards
formatIssueType(type) ==
    CASE type = "terminology" -> "Terminology"
      [] type = "deletion" -> "Deletion Required"
      [] type = "formatting" -> "Formatting"
      [] type = "party_label" -> "Party Label"
      [] type = "arbitration" -> "Arbitration Clause"
      [] type = "signature" -> "Signature"
      [] type \in InheritedKeys -> Inherited(type)
      [] OTHER -> "General"

\* '...'
Ellipsis == <<".", ".", ".">>

\* text.length <= maxLength, off by one
truncateTextBelow(text, maxLength) ==
    IF text = <<>> THEN <<>>
    ELSE IF Len(text) < maxLength THEN text
    ELSE SubSeq(text, 1, maxLength) \o Ellipsis

\* truncateText, for a text in which every token is one character
truncateText(text, maxLength) ==
    IF text = <<>> THEN <<>>
    ELSE IF Len(text) <= maxLength THEN text
    ELSE SubSeq(text, 1, maxLength) \o Ellipsis

\* issue.type || 'general', the end of the card's class name
CardType(type) == IF type \in {NoType, ""} THEN "general" ELSE type

\* issue.rule || 'General cleanup rule'
DefaultRule == <<"General", " ", "cleanup", " ", "rule">>

\* the card of one issue: the end of its class name and the texts of its
\* badge, its excerpt and its rule (its location line is left out)
IssueCard(issue) ==
    [type |-> CardType(issue.type),
     badge |-> formatIssueType(issue.type),
     text |-> escapeHtml(truncateText(issue.original_text, DisplayLength)),
     rule |-> escapeHtml(IF issue.rule = <<>> THEN DefaultRule ELSE issue.rule)]

\* the placeholder shown for a result without issues
EmptyIssues ==
    [type |-> "empty-issues", badge |-> "",
     text |-> <<"No issues found in this document.">>, rule |-> <<>>]

\* renderCleanupResults: the children of #cleanup-issues-list
renderIssuesList(result) ==
    IF result.issues = <<>> THEN <<EmptyIssues>>
    ELSE [k \in 1..Len(result.issues) |-> IssueCard(result.issues[k])]

\* ----------------------------------------------------- convertTextToHtml
RECURSIVE SkipNewlines(_)
SkipNewlines(text) ==
    IF text # <<>> /\ Head(text) = "\n" THEN SkipNewlines(Tail(text)) ELSE text

\* text.split(/\n\n+/); piece is the paragraph being read
RECURSIVE SplitParagraphs(_, _)
SplitParagraphs(text, piece) ==
    IF text = <<>> THEN <<piece>>
    ELSE IF Len(text) >= 2 /\ text[1] = "\n" /\ text[2] = "\n"
         THEN <<piece>> \o SplitParagraphs(SkipNewlines(text), <<>>)
         ELSE SplitParagraphs(Tail(text), Append(piece, Head(text)))

RECURSIVE SkipDigits(_)
SkipDigits(text) ==
    IF text # <<>> /\ Head(text) \in Digits THEN SkipDigits(Tail(text)) ELSE text

\* /^[A-Z][A-Z\s]+$/
AllCapitals(para) ==
    /\ Head(para) \in UpperWords
    /\ \A i \in 1..Len(para) : para[i] \in UpperWords \cup Whitespace

\* /^(PASAL|ARTICLE|BAB|CHAPTER)\s*\d+/i
MarkerNumbered(para) ==
    /\ Head(para) \in Markers
    /\ LET rest == TrimStart(Tail(para))
       IN  rest # <<>> /\ Head(rest) \in Digits

\* /^\d+\.\s/
NumberedParagraph(para) ==
    /\ Head(para) \in Digits
    /\ LET rest == SkipDigits(para)
       IN  Len(rest) >= 2 /\ rest[1] = "." /\ rest[2] \in Whitespace

\* para.replace(/\n/g, '<br>')
BreakToken(c) == IF c = "\n" THEN Tag("br") ELSE <<c>>

BreakLines(para) == Flatten([i \in 1..Len(para) |-> BreakToken(para[i])])

\* the body of paragraphs.forEach, for a trimmed paragraph that is not empty
ConvertParagraph(para) ==
    IF AllCapitals(para) \/ MarkerNumbered(para)
    THEN Tag("h2") \o escapeHtml(para) \o Tag("/h2") \o <<"\n">>
    ELSE IF NumberedParagraph(para)
    THEN Tag("p") \o escapeHtml(para) \o Tag("/p") \o <<"\n">>
    ELSE Tag("p") \o escapeHtml(BreakLines(para)) \o Tag("/p") \o <<"\n">>

EmptyParagraph == Tag("p") \o Tag("/p")

convertTextToHtmlAlways(text) ==
    IF text = <<>> THEN EmptyParagraph
    ELSE LET paragraphs == SplitParagraphs(text, <<>>)
             html == Flatten([i \in 1..Len(paragraphs) |->
                        IF Trim(paragraphs[i]) = <<>> THEN <<>>
                        ELSE ConvertParagraph(Trim(paragraphs[i]))])
         IN  IF html = <<>> THEN EmptyParagraph ELSE html

convertTextToHtml(text) ==
    IF text = <<>> THEN EmptyParagraph
    ELSE IF Trim(text) # <<>> /\ Head(Trim(text)) = "<" THEN text
    ELSE LET paragraphs == SplitParagraphs(text, <<>>)
             html == Flatten([i \in 1..Len(paragraphs) |->
                        IF Trim(paragraphs[i]) = <<>> THEN <<>>
                        ELSE ConvertParagraph(Trim(paragraphs[i]))])
         IN  IF html = <<>> THEN EmptyParagraph ELSE html

\* ---------------------------------------------------- the editing surface
\* What editorInstance.root.innerHTML reads after dangerouslyPasteHTML(html)
\* on a new Quill: the blocks of html without the line ends between them,
\* and one empty line where html has no content.
RECURSIVE DropBlockBreaks(_, _)
DropBlockBreaks(html, previous) ==
    IF html = <<>> THEN <<>>
    ELSE IF Head(html) = "\n" /\ previous = ">"
         THEN DropBlockBreaks(Tail(html), previous)
         ELSE <<Head(html)>> \o DropBlockBreaks(Tail(html), Head(html))

EmptyLine == Tag("p") \o Tag("br") \o Tag("/p")

QuillHtml(html) ==
    LET blocks == DropBlockBreaks(html, "")
    IN  IF blocks \in {<<>>, EmptyParagraph} THEN EmptyLine ELSE blocks

\* -------------------------------------------------------- backend results
Issue(text, type, rule) == [original_text |-> text, type |-> type, rule |-> rule]

\* a cleanup result as GET /cleanup/{id} returns it; a text field the body
\* does not carry is Null, one it carries is <<text>>
CleanupResult(original, issues, cleanedId, cleanedEn, editedId, editedEn) ==
    [document_id |-> 0, original_content |-> original, issues |-> issues,
     cleaned_indonesian |-> cleanedId, cleaned_english |-> cleanedEn,
     edited_indonesian |-> editedId, edited_english |-> editedEn]

\* the backend returns the result r for every document
ForEveryDoc(r) == [d \in Docs |-> [r EXCEPT !.document_id = d]]

\* the result of the workflow: two cleaned texts, nothing edited, no issue
DefaultCleanup ==
    CleanupResult(<<"halo">>, <<>>, Some(<<"halo">>), Some(<<"hello">>), Null, Null)

\* results drawn for the editor: one with nothing edited yet; one with a
\* heading and a paragraph of two lines as the cleaned Indonesian text, an
\* edited Indonesian text that is empty, no cleaned English text and a
\* numbered paragraph saved as the edited English text
EditorSamples ==
    { DefaultCleanup,
      CleanupResult(<<"halo">>, <<>>,
                    Some(<<"PASAL", " ", "1", "\n", "\n", "isi", "\n", "dua">>),
                    Null, Some(<<>>), Some(<<"1", ".", " ", "one">>)) }

\* what the user leaves in the editing surface after typing
TypedContents == {Tag("p") \o <<"baru">> \o Tag("/p")}

\* base texts and issues drawn for the annotation overlay
OverlayAlphabet == {"a", "<", ">", "\n"}
OverlayTexts == UNION {[1..n -> OverlayAlphabet] : n \in 0..MaxTextLen}
IssueTexts == {<<"a">>, <<"<">>, <<"a", "a">>}
IssueTypes == {"terminology", "unlisted"}
OverlayIssues == {Issue(x, y, <<"rule">>) : x \in IssueTexts, y \in IssueTypes}
OverlaySamples ==
    {CleanupResult(text, issues, Some(text), Null, Null, Null) :
        text \in OverlayTexts,
        issues \in UNION {[1..n -> OverlayIssues] : n \in 0..MaxIssues}}

\* Results drawn for the issue cards: one issue, its excerpt a text of single
\* characters of every length up to MaxExcess beyond the display length, its
\* type one of the listed types, a missing or empty one, one that is not
\* listed or an inherited name; its rule missing or present. The base text
\* is the longest excerpt, so that every excerpt occurs in it.
ListedTypes ==
    {"terminology", "deletion", "formatting", "party_label", "arbitration",
     "signature"}
CardTypes == ListedTypes \cup {NoType, "", "unlisted"} \cup InheritedKeys
CardChars == <<"a", "<", ".">>
LongText == [i \in 1..(DisplayLength + MaxExcess) |-> CardChars[(i % 3) + 1]]
CardTexts == {SubSeq(LongText, 1, n) : n \in 0..Len(LongText)}
CardRules == {<<>>, <<"rule">>}
CardSamples ==
    {CleanupResult(LongText, <<Issue(text, type, rule)>>, Some(LongText),
                   Null, Null, Null) :
        text \in CardTexts, type \in CardTypes, rule \in CardRules}

\* Results drawn for the promotion of plain text: the cleaned Indonesian text
\* is any text of up to MaxPlainLen tokens, nothing else is stored
PlainAlphabet == {"a", "<", "\n", " ", "PASAL", "1", "."}
PlainTexts == UNION {[1..n -> PlainAlphabet] : n \in 0..MaxPlainLen}
PromoteSamples ==
    {CleanupResult(<<"halo">>, <<>>, Some(text), Null, Null, Null) :
        text \in PlainTexts}

\* --------------------------------------------------------------- helpers
Task(kind, pc, doc) == [kind |-> kind, pc |-> pc, doc |-> doc]

\* every invocation a handler can be suspended as
Tasks ==
    {Task("startProcess", "upload", 0)}
    \cup {Task("startProcess", pc, d) : pc \in {"cleanup", "module"}, d \in Docs}
    \cup {Task(k, "fetch", d) :
            k \in {"viewExistingReport", "reAnalyzeDocument", "viewCleanupResults",
                   "startReview", "skipToModule", "rerunCleanup"},
            d \in Docs}

InFlight == BagCardinality(tasks)

\* the handler runs up to its first await and is suspended there
Spawn(kind, pc, doc) ==
    /\ InFlight < MaxTasks
    /\ tasks' = tasks (+) SetToBag({Task(kind, pc, doc)})

\* the handler invocation t returns
Finish(t) == tasks' = tasks (-) SetToBag({t})

\* the handler invocation t goes on to its next await
Continue(t, pc, doc) ==
    tasks' = (tasks (-) SetToBag({t})) (+) SetToBag({Task(t.kind, pc, doc)})

Awaiting(t, kind, pc) == BagIn(t, tasks) /\ t.kind = kind /\ t.pc = pc

TimerDelay(kind) == IF kind = "report" THEN ReportDelay ELSE ShowDelay

\* setTimeout(callback, delay)
Schedule(kind) ==
    /\ Len(timers) < MaxTimers
    /\ timers' = Append(timers, kind)

\* a callback can run before one scheduled earlier only if its delay is shorter
CanFire(i) ==
    /\ i \in 1..Len(timers)
    /\ \A j \in 1..(i - 1) : TimerDelay(timers[j]) > TimerDelay(timers[i])

RemoveAt(seq, i) == SubSeq(seq, 1, i - 1) \o SubSeq(seq, i + 1, Len(seq))

FreshDoc == CHOOSE d \in Docs \ serverDocs : \A e \in Docs \ serverDocs : d <= e

\* ------------------------------------------------------------------- Init
Languages == {"indonesian", "english"}

Status(text, className) == [text |-> text, className |-> className]

\* #editor-status before the editor was opened
InitialStatus == Status("", "")

\* the page loaded, with a backend that returns the given cleanup results
InitWith(cleanups) ==
    /\ section = "upload"
    /\ documentId = 0
    /\ trainingModule = Null
    /\ complianceReport = Null
    /\ cleanupResult = Null
    /\ progress = 0
    /\ statusLabel = ""
    /\ tasks = EmptyBag
    /\ timers = <<>>
    /\ serverDocs = InitialDocs
    /\ alerts = 0
    /\ serverCleanups = cleanups
    /\ originalContent = <<>>
    /\ issuesList = <<>>
    /\ editorInstance = Null
    /\ liveSurfaces = 0
    /\ currentEditorLanguage = "indonesian"
    /\ editorStatus = InitialStatus
    /\ saves = EmptyBag
    /\ statusTimers = 0

Init == InitWith(ForEveryDoc(DefaultCleanup))

\* ------------------------------------------------------------- navigation
\* .nav-item click, data-nav = upload (also reached from back-to-new-btn)
NavUpload ==
    /\ section' = "upload"
    /\ alerts' = 0
    /\ UNCHANGED <<session, progress, statusLabel, originalContent, issuesList,
                   editorVars,
                   tasks, timers, serverDocs, serverCleanups>>

\* .nav-item click, data-nav = history: the section and the two list loads
NavHistory ==
    /\ section' = "history"
    /\ alerts' = 0
    /\ UNCHANGED <<session, progress, statusLabel, originalContent, issuesList,
                   editorVars,
                   tasks, timers, serverDocs, serverCleanups>>

\* .nav-item click, data-nav = documents: the section and the list load
NavDocuments ==
    /\ section' = "documents"
    /\ alerts' = 0
    /\ UNCHANGED <<session, progress, statusLabel, originalContent, issuesList,
                   editorVars,
                   tasks, timers, serverDocs, serverCleanups>>

\* back-to-new-btn click (in the report section): clicks the upload nav item
BackToNew ==
    /\ section = "report"
    /\ section' = "upload"
    /\ alerts' = 0
    /\ UNCHANGED <<session, progress, statusLabel, originalContent, issuesList,
                   editorVars,
                   tasks, timers, serverDocs, serverCleanups>>

\* ------------------------------------------------------- upload pipeline
\* start-process-btn click with a file selected, up to the upload fetch
StartProcess ==
    /\ section = "upload"
    /\ section' = "processing"
    /\ progress' = 0
    /\ Spawn("startProcess", "upload", 0)
    /\ alerts' = 0
    /\ UNCHANGED <<session, statusLabel, originalContent, issuesList,
                   editorVars, timers,
                   serverDocs, serverCleanups>>

\* the catch block of the start-process handler
StartProcessCatch(t) ==
    /\ section' = "upload"
    /\ Finish(t)
    /\ alerts' = 1

\* the upload response: documentId = uploadData.id, then the cleanup fetch
UploadResponse(t, outcome) ==
    /\ Awaiting(t, "startProcess", "upload")
    /\ IF outcome = "ok"
       THEN /\ Docs \ serverDocs # {}
            /\ documentId' = FreshDoc
            /\ serverDocs' = serverDocs \cup {FreshDoc}
            /\ progress' = 40
            /\ Continue(t, "cleanup", FreshDoc)
            /\ alerts' = 0
            /\ UNCHANGED <<section, trainingModule, complianceReport,
                           cleanupResult, statusLabel, originalContent, issuesList,
                           
                           editorVars, timers, serverCleanups>>
       ELSE /\ StartProcessCatch(t)
            /\ UNCHANGED <<session, progress, statusLabel, originalContent, issuesList,
                   
                           editorVars, timers, serverDocs, serverCleanups>>

\* the cleanup response of the pipeline: a result is shown after ShowDelay;
\* a non-success status or a caught failure goes on to module creation for
\* the documentId of that moment
PipelineCleanupResponse(t, outcome) ==
    /\ Awaiting(t, "startProcess", "cleanup")
    /\ progress' = 70
    /\ alerts' = 0
    /\ IF outcome = "ok"
       THEN /\ cleanupResult' = Some(serverCleanups[t.doc])
            /\ Schedule("cleanup")
            /\ Finish(t)
       ELSE /\ Continue(t, "module", documentId)
            /\ UNCHANGED <<cleanupResult, timers>>
    /\ UNCHANGED <<section, documentId, trainingModule, complianceReport,
                   statusLabel, originalContent, issuesList,
                   editorVars, serverDocs,
                   serverCleanups>>

\* the module-creation response of the pipeline
PipelineModuleResponse(t, outcome) ==
    /\ Awaiting(t, "startProcess", "module")
    /\ IF outcome \in {"ok", "malformed"}
       THEN /\ trainingModule' = Some([document_id |-> t.doc,
                                       has_content |-> (outcome = "ok")])
            /\ progress' = 100
            /\ Schedule("module")
            /\ Finish(t)
            /\ alerts' = 0
            /\ UNCHANGED <<section, documentId, complianceReport, cleanupResult,
                           statusLabel, originalContent, issuesList,
                           editorVars, serverDocs,
                           serverCleanups>>
       ELSE /\ StartProcessCatch(t)
            /\ UNCHANGED <<session, progress, statusLabel, originalContent, issuesList,
                   
                           editorVars, timers, serverDocs, serverCleanups>>

\* ------------------------------------------------ open an existing result
\* the click on a row button of a list, up to the fetch
OpenExisting(kind, from, d) ==
    /\ section = from
    /\ d \in serverDocs
    /\ section' = "processing"
    /\ documentId' = d
    /\ Spawn(kind, "fetch", d)
    /\ alerts' = 0
    /\ UNCHANGED <<trainingModule, complianceReport, cleanupResult, progress,
                   statusLabel, originalContent, issuesList,
                   editorVars, timers, serverDocs,
                   serverCleanups>>

\* the catch block of an open-existing handler: alert(err.message), then a
\* click on the navigation item `nav`
OpenExistingCatch(t, nav) ==
    /\ section' = nav
    /\ Finish(t)
    /\ alerts' = 1

\* window.viewExistingReport (View Report, compliance history table)
ViewExistingReport(d) == OpenExisting("viewExistingReport", "history", d)

ViewExistingReportResponse(t, outcome, score) ==
    /\ Awaiting(t, "viewExistingReport", "fetch")
    /\ IF outcome = "ok"
       THEN LET report == [document_id |-> t.doc, compliance_score |-> score]
            IN  /\ complianceReport' = Some(report)
                /\ statusLabel' = renderComplianceReport(report)
                /\ section' = "report"
                /\ Finish(t)
                /\ alerts' = 0
                /\ UNCHANGED <<documentId, trainingModule, cleanupResult,
                               originalContent, issuesList, editorVars>>
       ELSE /\ OpenExistingCatch(t, "history")
            /\ UNCHANGED <<session, statusLabel, originalContent, issuesList,
                   editorVars>>
    /\ UNCHANGED <<progress, timers, serverDocs, serverCleanups>>

\* window.reAnalyzeDocument (Analyze Again, documents table)
ReAnalyzeDocument(d) == OpenExisting("reAnalyzeDocument", "documents", d)

\* renderTrainingModule runs inside the try: its TypeError on a body without
\* module_content is caught, after trainingModule and documentId were assigned
ReAnalyzeDocumentResponse(t, outcome) ==
    /\ Awaiting(t, "reAnalyzeDocument", "fetch")
    /\ IF outcome \in {"ok", "malformed"}
       THEN /\ trainingModule' = Some([document_id |-> t.doc,
                                       has_content |-> (outcome = "ok")])
            /\ documentId' = t.doc
            /\ UNCHANGED <<complianceReport, cleanupResult>>
            /\ IF outcome = "ok"
               THEN /\ section' = "module"
                    /\ Finish(t)
                    /\ alerts' = 0
               ELSE OpenExistingCatch(t, "documents")
       ELSE /\ OpenExistingCatch(t, "documents")
            /\ UNCHANGED session
    /\ UNCHANGED <<progress, statusLabel, originalContent, issuesList,
                   editorVars, timers,
                   serverDocs, serverCleanups>>

\* window.viewCleanupResults (View Cleanup, cleanup history table)
ViewCleanupResults(d) == OpenExisting("viewCleanupResults", "history", d)

ViewCleanupResultsResponse(t, outcome) ==
    /\ Awaiting(t, "viewCleanupResults", "fetch")
    /\ IF outcome = "ok"
       THEN /\ cleanupResult' = Some(serverCleanups[t.doc])
            /\ originalContent' = renderCleanupResults(serverCleanups[t.doc])
            /\ issuesList' = renderIssuesList(serverCleanups[t.doc])
            /\ section' = "cleanup"
            /\ Finish(t)
            /\ alerts' = 0
            /\ UNCHANGED <<documentId, trainingModule, complianceReport>>
       ELSE /\ OpenExistingCatch(t, "documents")
            /\ UNCHANGED <<session, originalContent, issuesList>>
    /\ UNCHANGED <<progress, statusLabel, editorVars, timers, serverDocs,
                   serverCleanups>>

\* ------------------------------------------------------------ stage buttons
\* a stage button's click handler up to its fetch for the current documentId
StartStage(kind, from, percent) ==
    /\ section = from
    /\ documentId # 0
    /\ section' = "processing"
    /\ progress' = percent
    /\ Spawn(kind, "fetch", documentId)
    /\ alerts' = 0
    /\ UNCHANGED <<session, statusLabel, originalContent, issuesList,
                   editorVars, timers,
                   serverDocs, serverCleanups>>

\* a catch block that sends the failed request again
StageCatchRetrying(t, back) ==
    /\ section' = back
    /\ tasks' = tasks
    /\ alerts' = 1
    /\ UNCHANGED <<session, progress, statusLabel, originalContent, issuesList,
                   editorVars, timers, serverDocs, serverCleanups>>

\* the catch block of a stage button's handler
StageCatch(t, back) ==
    /\ section' = back
    /\ Finish(t)
    /\ alerts' = 1
    /\ UNCHANGED <<session, progress, statusLabel, originalContent, issuesList,
                   editorVars,
                   timers, serverDocs, serverCleanups>>

\* start-review-btn click (module section)
StartReview == StartStage("startReview", "module", 10)

StartReviewResponse(t, outcome, score) ==
    /\ Awaiting(t, "startReview", "fetch")
    /\ IF outcome = "ok"
       THEN /\ complianceReport' = Some([document_id |-> t.doc,
                                         compliance_score |-> score])
            /\ progress' = 100
            /\ Schedule("report")
            /\ Finish(t)
            /\ alerts' = 0
            /\ UNCHANGED <<section, documentId, trainingModule, cleanupResult,
                           statusLabel, originalContent, issuesList,
                           editorVars, serverDocs,
                           serverCleanups>>
       ELSE StageCatch(t, "module")

\* skip-to-module-btn click (cleanup section)
SkipToModule == StartStage("skipToModule", "cleanup", 30)

SkipToModuleResponse(t, outcome) ==
    /\ Awaiting(t, "skipToModule", "fetch")
    /\ IF outcome \in {"ok", "malformed"}
       THEN /\ trainingModule' = Some([document_id |-> t.doc,
                                       has_content |-> (outcome = "ok")])
            /\ progress' = 100
            /\ Schedule("module")
            /\ Finish(t)
            /\ alerts' = 0
            /\ UNCHANGED <<section, documentId, complianceReport, cleanupResult,
                           statusLabel, originalContent, issuesList,
                           editorVars, serverDocs,
                           serverCleanups>>
       ELSE StageCatch(t, "cleanup")

\* rerun-cleanup-btn click (cleanup section)
RerunCleanup == StartStage("rerunCleanup", "cleanup", 30)

RerunCleanupResponse(t, outcome) ==
    /\ Awaiting(t, "rerunCleanup", "fetch")
    /\ IF outcome = "ok"
       THEN /\ cleanupResult' = Some(serverCleanups[t.doc])
            /\ progress' = 100
            /\ Schedule("cleanup")
            /\ Finish(t)
            /\ alerts' = 0
            /\ UNCHANGED <<section, documentId, trainingModule, complianceReport,
                           statusLabel, originalContent, issuesList,
                           editorVars, serverDocs,
                           serverCleanups>>
       ELSE StageCatch(t, "cleanup")

\* ------------------------------------------------ delayed success callbacks
\* setTimeout(() => { renderCleanupResults(cleanupResult); showSection('cleanup') })
ShowCleanupCallback ==
    /\ originalContent' = renderCleanupResults(cleanupResult[1])
    /\ issuesList' = renderIssuesList(cleanupResult[1])
    /\ section' = "cleanup"
    /\ alerts' = 0
    /\ UNCHANGED <<session, statusLabel, editorVars>>

\* setTimeout(() => { renderTrainingModule(trainingModule); showSection('module') }):
\* renderTrainingModule assigns documentId and then reads module_content's
\* fields; on a body without module_content that throws, out of the callback,
\* and showSection is not reached
ShowModuleCallback ==
    LET module == trainingModule[1]
    IN  /\ documentId' = module.document_id
        /\ IF module.has_content
           THEN /\ section' = "module"
                /\ alerts' = 0
           ELSE /\ section' = section
                /\ alerts' = 0
        /\ UNCHANGED <<trainingModule, complianceReport, cleanupResult,
                       statusLabel, originalContent, issuesList, editorVars>>

\* setTimeout(() => { renderComplianceReport(complianceReport); showSection('report') })
ShowReportCallback ==
    /\ statusLabel' = renderComplianceReport(complianceReport[1])
    /\ section' = "report"
    /\ alerts' = 0
    /\ UNCHANGED <<session, originalContent, issuesList, editorVars>>

TimerFire(i) ==
    /\ CanFire(i)
    /\ timers' = RemoveAt(timers, i)
    /\ CASE timers[i] = "cleanup" -> ShowCleanupCallback
         [] timers[i] = "module" -> ShowModuleCallback
         [] timers[i] = "report" -> ShowReportCallback
    /\ UNCHANGED <<progress, tasks, serverDocs, serverCleanups>>

\* ------------------------------------------------------ the document editor
EditedField(language) ==
    IF language = "indonesian" THEN "edited_indonesian" ELSE "edited_english"

CleanedField(language) ==
    IF language = "indonesian" THEN "cleaned_indonesian" ELSE "cleaned_english"

\* a text field that `||` skips: absent, or the empty string
Falsy(field) == field = Null \/ field[1] = <<>>

ContentToLoadCleanedFirst(result, language) ==
    IF ~Falsy(result[CleanedField(language)]) THEN result[CleanedField(language)][1]
    ELSE IF ~Falsy(result[EditedField(language)])
         THEN result[EditedField(language)][1]
         ELSE <<>>

\* initQuillEditor: edited || cleaned || ''
ContentToLoad(result, language) ==
    IF ~Falsy(result[EditedField(language)]) THEN result[EditedField(language)][1]
    ELSE IF ~Falsy(result[CleanedField(language)])
         THEN result[CleanedField(language)][1]
         ELSE <<>>

\* what the surface holds once initQuillEditor has loaded the language
LoadedHtml(result, language) ==
    QuillHtml(convertTextToHtml(ContentToLoad(result, language)))

StoreCleaned(result, language, content) ==
    [result EXCEPT ![CleanedField(language)] = Some(content)]

\* cleanupResult.edited_<language> = content
StoreEdited(result, language, content) ==
    [result EXCEPT ![EditedField(language)] = Some(content)]

destroyEditorKeepsDom(instance, surfaces) ==
    [instance |-> Null, surfaces |-> surfaces]

destroyEditorUnguarded(instance, surfaces) ==
    [instance |-> Null, surfaces |-> surfaces - 1]

\* destroyEditor: the instance and the DOM it leaves
destroyEditor(instance, surfaces) ==
    IF instance # Null
    THEN [instance |-> Null, surfaces |-> surfaces - 1]
    ELSE [instance |-> instance, surfaces |-> surfaces]

\* initQuillEditor for the result and language of the moment
initQuillEditor(result, language) ==
    /\ editorInstance' = Some([html |-> LoadedHtml(result, language)])
    /\ liveSurfaces' = destroyEditor(editorInstance, liveSurfaces).surfaces + 1
    /\ editorStatus' = Status("Ready", "")

\* edit-document-btn click (cleanup section): openDocumentEditor
OpenDocumentEditor ==
    /\ section = "cleanup"
    /\ cleanupResult # Null
    /\ section' = "editor"
    /\ currentEditorLanguage' = "indonesian"
    /\ initQuillEditor(cleanupResult[1], "indonesian")
    /\ alerts' = 0
    /\ UNCHANGED <<session, progress, statusLabel, originalContent, issuesList,
                   tasks, timers,
                   serverDocs, serverCleanups, saves, statusTimers>>

\* back-to-cleanup-btn click (editor section)
BackToCleanup ==
    /\ section = "editor"
    /\ editorInstance' = destroyEditor(editorInstance, liveSurfaces).instance
    /\ liveSurfaces' = destroyEditor(editorInstance, liveSurfaces).surfaces
    /\ section' = "cleanup"
    /\ alerts' = 0
    /\ UNCHANGED <<session, progress, statusLabel, originalContent, issuesList,
                   tasks, timers,
                   serverDocs, serverCleanups, currentEditorLanguage,
                   editorStatus, saves, statusTimers>>

\* the language the surface content is stored under when the user leaves
\* `current` for `lang`
CapturedLanguageIsTarget(current, lang) == lang

CapturedLanguage(current, lang) == current

\* switchEditorLanguage(lang) with a live surface that holds html: the
\* result it leaves, and the content the new surface holds
Switched(result, current, html, lang) ==
    LET captured == StoreEdited(result, CapturedLanguage(current, lang), html)
    IN  [result |-> captured, html |-> LoadedHtml(captured, lang)]

\* .editor-lang-btn click (editor section): switchEditorLanguage(lang)
SwitchEditorLanguage(lang) ==
    /\ section = "editor"
    /\ LET captured ==
              IF editorInstance # Null /\ cleanupResult # Null
              THEN Some(Switched(cleanupResult[1], currentEditorLanguage,
                                 editorInstance[1].html, lang).result)
              ELSE cleanupResult
       IN  /\ cleanupResult' = captured
           /\ currentEditorLanguage' = lang
           /\ initQuillEditor(captured[1], lang)
    /\ alerts' = 0
    /\ UNCHANGED <<section, documentId, trainingModule, complianceReport, progress,
                   statusLabel, originalContent, issuesList,
                   tasks, timers, serverDocs,
                   serverCleanups, saves, statusTimers>>

\* the user types: the surface holds html, the text-change handler runs
EditSurface(html) ==
    /\ section = "editor"
    /\ editorInstance # Null
    /\ editorInstance[1].html # html
    /\ editorInstance' = Some([html |-> html])
    /\ editorStatus' = Status("Unsaved changes", "")
    /\ alerts' = 0
    /\ UNCHANGED <<section, session, progress, statusLabel, originalContent, issuesList,
                   tasks,
                   timers, serverDocs, serverCleanups, liveSurfaces,
                   currentEditorLanguage, saves, statusTimers>>

SaveTask(doc, content, language) ==
    [doc |-> doc, content |-> content, language |-> language]

\* save-document-btn click (editor section): saveEditedDocument up to the fetch
SaveEditedDocument ==
    /\ section = "editor"
    /\ alerts' = 0
    /\ IF editorInstance = Null \/ documentId = 0
       THEN UNCHANGED <<editorStatus, saves>>
       ELSE /\ BagCardinality(saves) < MaxSaves
            /\ editorStatus' = Status("Saving...", "saving")
            /\ saves' = saves (+) SetToBag({SaveTask(documentId,
                            editorInstance[1].html, currentEditorLanguage)})
    /\ UNCHANGED <<section, session, progress, statusLabel, originalContent, issuesList,
                   tasks,
                   timers, serverDocs, serverCleanups, editorInstance, liveSurfaces,
                   currentEditorLanguage, statusTimers>>

SaveSucceededUnlessRejected(outcome) == outcome # "transport"

\* the save handler gets past `if (!res.ok) throw` and `await res.json()`
SaveSucceeded(outcome) == outcome \in {"ok", "malformed"}

\* the response of a save request
SaveResponse(t, outcome) ==
    /\ BagIn(t, saves)
    /\ saves' = saves (-) SetToBag({t})
    /\ IF SaveSucceeded(outcome)
       THEN /\ statusTimers < MaxStatusTimers
            /\ cleanupResult' =
                  Some(StoreEdited(cleanupResult[1], currentEditorLanguage, t.content))
            /\ editorStatus' = Status("Saved successfully", "saved")
            /\ statusTimers' = statusTimers + 1
            /\ alerts' = 0
       ELSE /\ editorStatus' = Status("Error saving", "error")
            /\ alerts' = 1
            /\ UNCHANGED <<cleanupResult, statusTimers>>
    /\ UNCHANGED <<section, documentId, trainingModule, complianceReport, progress,
                   statusLabel, originalContent, issuesList,
                   tasks, timers, serverDocs,
                   serverCleanups, editorInstance, liveSurfaces,
                   currentEditorLanguage>>

\* setTimeout(() => updateEditorStatus('Ready'), 3000)
StatusReset ==
    /\ statusTimers > 0
    /\ statusTimers' = statusTimers - 1
    /\ editorStatus' = Status("Ready", "")
    /\ alerts' = 0
    /\ UNCHANGED <<section, session, progress, statusLabel, originalContent, issuesList,
                   tasks,
                   timers, serverDocs, serverCleanups, editorInstance, liveSurfaces,
                   currentEditorLanguage, saves>>

ExportToDocxClosing ==
    /\ section = "editor"
    /\ alerts' = IF editorInstance = Null THEN 0 ELSE 1
    /\ editorInstance' = Null
    /\ UNCHANGED <<section, session, progress, statusLabel, originalContent, issuesList,
                   tasks,
                   timers, serverDocs, serverCleanups, liveSurfaces,
                   currentEditorLanguage, editorStatus, saves, statusTimers>>

\* export-docx-btn click (editor section): exportToDocx hands the surface
\* content to the browser as a file and raises the instructions dialog
ExportToDocx ==
    /\ section = "editor"
    /\ alerts' = IF editorInstance = Null THEN 0 ELSE 1
    /\ UNCHANGED <<section, session, progress, statusLabel, originalContent, issuesList,
                   tasks,
                   timers, serverDocs, serverCleanups, editorVars>>

\* ------------------------------------------------------------------- Next
\* the response of the fetch task t is suspended at
Respond(t) ==
    \/ \E o \in Outcomes : UploadResponse(t, o)
    \/ \E o \in Outcomes : PipelineCleanupResponse(t, o)
    \/ \E o \in ModuleOutcomes : PipelineModuleResponse(t, o)
    \/ \E o \in Outcomes, s \in SampleScores : ViewExistingReportResponse(t, o, s)
    \/ \E o \in ModuleOutcomes : ReAnalyzeDocumentResponse(t, o)
    \/ \E o \in Outcomes : ViewCleanupResultsResponse(t, o)
    \/ \E o \in Outcomes, s \in SampleScores : StartReviewResponse(t, o, s)
    \/ \E o \in ModuleOutcomes : SkipToModuleResponse(t, o)
    \/ \E o \in Outcomes : RerunCleanupResponse(t, o)

Fire == \E i \in 1..MaxTimers : TimerFire(i)

\* what the user can do
UserAction ==
    \/ NavUpload
    \/ NavHistory
    \/ NavDocuments
    \/ BackToNew
    \/ StartProcess
    \/ \E d \in Docs : ViewExistingReport(d)
    \/ \E d \in Docs : ReAnalyzeDocument(d)
    \/ \E d \in Docs : ViewCleanupResults(d)
    \/ StartReview
    \/ SkipToModule
    \/ RerunCleanup

\* what happens without the user: a response arrives, a timer fires
SystemAction ==
    \/ \E t \in BagToSet(tasks), o \in Outcomes : UploadResponse(t, o)
    \/ \E t \in BagToSet(tasks), o \in Outcomes : PipelineCleanupResponse(t, o)
    \/ \E t \in BagToSet(tasks), o \in ModuleOutcomes : PipelineModuleResponse(t, o)
    \/ \E t \in BagToSet(tasks), o \in Outcomes, s \in SampleScores :
          ViewExistingReportResponse(t, o, s)
    \/ \E t \in BagToSet(tasks), o \in ModuleOutcomes : ReAnalyzeDocumentResponse(t, o)
    \/ \E t \in BagToSet(tasks), o \in Outcomes : ViewCleanupResultsResponse(t, o)
    \/ \E t \in BagToSet(tasks), o \in Outcomes, s \in SampleScores :
          StartReviewResponse(t, o, s)
    \/ \E t \in BagToSet(tasks), o \in ModuleOutcomes : SkipToModuleResponse(t, o)
    \/ \E t \in BagToSet(tasks), o \in Outcomes : RerunCleanupResponse(t, o)
    \/ Fire

Next == UserAction \/ SystemAction

Spec == Init /\ [][Next]_vars

\* every issued request resolves and every scheduled timer fires; the user is
\* under no obligation to act
FairSpec == Spec /\ WF_vars(Fire) /\ \A t \in Tasks : WF_vars(Respond(t))

\* an upload pipeline is past its upload response
PipelineRunning ==
    \E t \in BagToSet(tasks) : t.kind = "startProcess" /\ t.pc # "upload"

\* the user keeps the hands off while an upload pipeline is past its upload
\* response: between the upload response and the view the pipeline ends in,
\* only responses and timers happen
NextHandsOff == (~PipelineRunning /\ UserAction) \/ SystemAction

SpecHandsOff == Init /\ [][NextHandsOff]_vars

\* ------------------------------------------------- the report renderer alone
\* every score a report can carry, and a report without one
Scores == (0..MaxScore) \cup {NoScore}

NextReport ==
    \/ NavHistory
    \/ \E d \in Docs : ViewExistingReport(d)
    \/ \E t \in BagToSet(tasks), o \in Outcomes, s \in Scores :
          ViewExistingReportResponse(t, o, s)

\* History -> View Report -> the report is rendered, for every score
SpecReport == Init /\ [][NextReport]_vars

\* ------------------------------------------------------- the editor alone
\* the page loaded, with a backend that returns one of the editor's samples
InitEditor == \E r \in EditorSamples : InitWith(ForEveryDoc(r))

\* History -> View Cleanup -> Edit Document, and what the editor offers
NextEditor ==
    \/ NavHistory
    \/ \E d \in Docs : ViewCleanupResults(d)
    \/ \E t \in BagToSet(tasks), o \in Outcomes : ViewCleanupResultsResponse(t, o)
    \/ OpenDocumentEditor
    \/ BackToCleanup
    \/ \E lang \in Languages : SwitchEditorLanguage(lang)
    \/ \E html \in TypedContents : EditSurface(html)
    \/ SaveEditedDocument
    \/ \E t \in BagToSet(saves), o \in ModuleOutcomes : SaveResponse(t, o)
    \/ StatusReset
    \/ ExportToDocx

SpecEditor == InitEditor /\ [][NextEditor]_vars

\* ------------------------------------------- the annotation overlay alone
InitOverlay == \E r \in OverlaySamples : InitWith(ForEveryDoc(r))

\* History -> View Cleanup -> the cleanup view is rendered
NextOverlay ==
    \/ NavHistory
    \/ \E d \in Docs : ViewCleanupResults(d)
    \/ \E t \in BagToSet(tasks), o \in Outcomes : ViewCleanupResultsResponse(t, o)

SpecOverlay == InitOverlay /\ [][NextOverlay]_vars

\* ------------------------------------- stage requests and saves together
\* the cleanup view, opened from the history, with its re-run, and the editor
\* with its save
NextRetry ==
    \/ NavHistory
    \/ \E d \in Docs : ViewCleanupResults(d)
    \/ \E t \in BagToSet(tasks), o \in Outcomes : ViewCleanupResultsResponse(t, o)
    \/ RerunCleanup
    \/ \E t \in BagToSet(tasks), o \in Outcomes : RerunCleanupResponse(t, o)
    \/ Fire
    \/ OpenDocumentEditor
    \/ BackToCleanup
    \/ \E html \in TypedContents : EditSurface(html)
    \/ SaveEditedDocument
    \/ \E t \in BagToSet(saves), o \in ModuleOutcomes : SaveResponse(t, o)
    \/ StatusReset

SpecRetry == Init /\ [][NextRetry]_vars

\* ------------------------------------------ the promotion of plain text
InitPromote == \E r \in PromoteSamples : InitWith(ForEveryDoc(r))

\* History -> View Cleanup -> Edit Document, switching and leaving the editor
NextPromote ==
    \/ NavHistory
    \/ \E d \in Docs : ViewCleanupResults(d)
    \/ \E t \in BagToSet(tasks), o \in Outcomes : ViewCleanupResultsResponse(t, o)
    \/ OpenDocumentEditor
    \/ BackToCleanup
    \/ \E lang \in Languages : SwitchEditorLanguage(lang)

SpecPromote == InitPromote /\ [][NextPromote]_vars

\* ---------------------------------------------------- the issue cards alone
InitCards == \E r \in CardSamples : InitWith(ForEveryDoc(r))

\* History -> View Cleanup -> the cleanup view is rendered
SpecCards == InitCards /\ [][NextOverlay]_vars

\* --------------------------------- every value object of the session
\* the lists open a stored report, module or cleanup result, one fetch at a
\* time, and the editor switches its language and saves
NextSession ==
    \/ NavHistory
    \/ NavDocuments
    \/ InFlight = 0 /\ \E d \in Docs : ViewExistingReport(d)
    \/ \E t \in BagToSet(tasks), o \in Outcomes, s \in SampleScores :
          ViewExistingReportResponse(t, o, s)
    \/ InFlight = 0 /\ \E d \in Docs : ReAnalyzeDocument(d)
    \/ \E t \in BagToSet(tasks), o \in ModuleOutcomes : ReAnalyzeDocumentResponse(t, o)
    \/ InFlight = 0 /\ \E d \in Docs : ViewCleanupResults(d)
    \/ \E t \in BagToSet(tasks), o \in Outcomes : ViewCleanupResultsResponse(t, o)
    \/ OpenDocumentEditor
    \/ BackToCleanup
    \/ \E lang \in Languages : SwitchEditorLanguage(lang)
    \/ SaveEditedDocument
    \/ \E t \in BagToSet(saves), o \in ModuleOutcomes : SaveResponse(t, o)

SpecSession == Init /\ [][NextSession]_vars

\* ------------------------------------------- the language tabs of the editor
\* History -> View Cleanup -> Edit Document, typing and clicking the tabs
NextSwitch ==
    \/ NavHistory
    \/ \E d \in Docs : ViewCleanupResults(d)
    \/ \E t \in BagToSet(tasks), o \in Outcomes : ViewCleanupResultsResponse(t, o)
    \/ OpenDocumentEditor
    \/ BackToCleanup
    \/ \E lang \in Languages : SwitchEditorLanguage(lang)
    \/ \E html \in TypedContents : EditSurface(html)

SpecSwitch == InitEditor /\ [][NextSwitch]_vars

\* ------------------------------------- navigation after a stage succeeded
\* the user clicks a navigation item only while a delayed success callback is
\* pending, that is after the response that scheduled it has arrived
NextLateNav ==
    \/ timers # <<>> /\ (NavUpload \/ NavHistory \/ NavDocuments)
    \/ BackToNew
    \/ StartProcess
    \/ \E d \in Docs : ViewExistingReport(d)
    \/ \E d \in Docs : ReAnalyzeDocument(d)
    \/ \E d \in Docs : ViewCleanupResults(d)
    \/ StartReview
    \/ SkipToModule
    \/ RerunCleanup
    \/ SystemAction

SpecLateNav == Init /\ [][NextLateNav]_vars

\* -------------------------------------------------------------- properties
\* the response of the invocation t was handled by this step
Handled(t) == CopiesIn(t, tasks') < CopiesIn(t, tasks)

\* the section that holds the button of a handler
TriggerSection(kind) ==
    CASE kind = "startProcess" -> "upload"
      [] kind \in {"viewExistingReport", "viewCleanupResults"} -> "history"
      [] kind = "reAnalyzeDocument" -> "documents"
      [] kind = "startReview" -> "module"
      [] kind \in {"skipToModule", "rerunCleanup"} -> "cleanup"

\* C1: when the response of a stage request arrives and the document it was
\* issued for is not the session's current documentId, the handler changes none
\* of documentId, trainingModule, complianceReport, cleanupResult, nor the
\* displayed section.
C1_StaleResponseDiscarded ==
    [][\A t \in Tasks :
          (BagIn(t, tasks) /\ t.doc # 0 /\ t.doc # documentId /\ Handled(t))
              => UNCHANGED <<session, section>>]_vars

\* C2: in every reachable state at most one stage request is in flight.
C2_AtMostOneInFlight == InFlight <= 1

\* a stage request of the invocation t failed in this step (upload, module
\* creation, compliance review, cleanup re-run, open-existing fetch)
StageFailed(t) ==
    \E o \in Failures :
        \/ UploadResponse(t, o)
        \/ PipelineModuleResponse(t, o)
        \/ SkipToModuleResponse(t, o)
        \/ StartReviewResponse(t, o, NoScore)
        \/ RerunCleanupResponse(t, o)
        \/ ViewExistingReportResponse(t, o, NoScore)
        \/ ReAnalyzeDocumentResponse(t, o)
        \/ ViewCleanupResultsResponse(t, o)

\* C3: after any failed stage request exactly one message is surfaced and the
\* displayed section becomes the stable section shown when the stage was
\* triggered, never Processing.
C3_FailureReturnsToTrigger ==
    [][\A t \in Tasks :
          StageFailed(t) =>
              /\ alerts' = 1
              /\ section' = TriggerSection(t.kind)
              /\ section' # "processing"]_vars

\* C4: in the upload pipeline, when the cleanup fetch for the uploaded document
\* reports absence, the module-creation request is issued at once for that
\* document, and its success schedules the Module view.
C4_AbsenceFallsThroughToModule ==
    [][\A t \in Tasks :
          /\ PipelineCleanupResponse(t, "notok")
                => BagIn(Task("startProcess", "module", t.doc), tasks')
          /\ PipelineModuleResponse(t, "ok")
                => /\ timers' = Append(timers, "module")
                   /\ trainingModule'[1].document_id = t.doc]_vars

\* C5: in the post-upload cleanup step a transport or shape failure of the
\* cleanup request returns the UI to Upload with a surfaced error and issues no
\* module-creation request; only absence falls through to module creation.
C5_HardFailureAborts ==
    [][\A t \in Tasks :
          /\ (\E o \in {"transport", "shape"} : PipelineCleanupResponse(t, o))
                => /\ section' = "upload"
                   /\ alerts' = 1
                   /\ InFlight' < InFlight
          /\ PipelineCleanupResponse(t, "notok") => InFlight' = InFlight]_vars

\* the object behind a session pointer belongs to a document other than d
OfOtherDoc(ptr, d) == ptr # Null /\ ptr[1].document_id # d

\* C6: a brand-new upload resets trainingModule, complianceReport and
\* cleanupResult; so the session never holds the documentId of a new upload
\* together with a module, report or cleanup result of an earlier document.
C6_UploadResetsSession ==
    /\ [][StartProcess => /\ trainingModule' = Null
                          /\ complianceReport' = Null
                          /\ cleanupResult' = Null]_vars
    /\ [](documentId \in serverDocs \ InitialDocs =>
            /\ ~OfOtherDoc(trainingModule, documentId)
            /\ ~OfOtherDoc(complianceReport, documentId)
            /\ ~OfOtherDoc(cleanupResult, documentId))

\* C7: Processing is never a resting state: whenever Processing is displayed, a
\* request is still to resolve or a timer is still to fire, so that the section
\* changes without a user action.
C7_ProcessingNeverRests ==
    section = "processing" => (InFlight > 0 \/ timers # <<>>)

\* C7, as a property of behaviours in which every request resolves and every
\* timer fires
C7_ProcessingTransient == (section = "processing") ~> (section # "processing")

\* a stage run succeeded in this step: its target view is shown
SuccessTransition ==
    \/ \E i \in 1..MaxTimers : TimerFire(i) /\ section' \in {"cleanup", "module", "report"}
    \/ \E t \in Tasks :
          \/ ReAnalyzeDocumentResponse(t, "ok")
          \/ ViewCleanupResultsResponse(t, "ok")
          \/ \E s \in Scores : ViewExistingReportResponse(t, "ok", s)

\* C8: the percentages passed to updateProgress while Processing is displayed
\* never decrease, and a successful run reports 100 before its success
\* transition.
C8_ProgressMonotoneTo100 ==
    /\ [][(section = "processing" /\ section' = "processing")
            => progress' >= progress]_vars
    /\ [][SuccessTransition => progress = 100]_vars

\* C9: for every integer score in 0..100 the status label is COMPLIANT iff
\* score >= 90, MOSTLY COMPLIANT iff 70 <= score < 90, NEEDS REVIEW iff
\* 50 <= score < 70, NON-COMPLIANT iff score < 50; a report without a score is
\* treated as score 0.
C9_ScoreClassification ==
    complianceReport # Null =>
        LET given == complianceReport[1].compliance_score
            score == IF given = NoScore THEN 0 ELSE given
        IN  /\ (statusLabel = "COMPLIANT") <=> (score >= 90)
            /\ (statusLabel = "MOSTLY COMPLIANT") <=> (70 <= score /\ score < 90)
            /\ (statusLabel = "NEEDS REVIEW") <=> (50 <= score /\ score < 70)
            /\ (statusLabel = "NON-COMPLIANT") <=> (score < 50)

\* a report with the boundary score 90 was rendered
C9_Witness ==
    /\ section = "report"
    /\ complianceReport # Null
    /\ complianceReport[1].compliance_score = 90
    /\ statusLabel = "COMPLIANT"

\* C10: opening an existing report, module or cleanup result ends, on success,
\* in the target view and, on a failed fetch, in the list view the open action
\* was triggered from (History for reports and cleanup results, Documents for
\* modules), with a surfaced error.
C10_OpenExistingTargets ==
    [][\A t \in Tasks :
          /\ (\E s \in Scores : ViewExistingReportResponse(t, "ok", s))
                => section' = "report"
          /\ ReAnalyzeDocumentResponse(t, "ok") => section' = "module"
          /\ ViewCleanupResultsResponse(t, "ok") => section' = "cleanup"
          /\ (\E o \in Failures :
                \/ ViewExistingReportResponse(t, o, NoScore)
                \/ ReAnalyzeDocumentResponse(t, o)
                \/ ViewCleanupResultsResponse(t, o))
                => (section' = TriggerSection(t.kind) /\ alerts' = 1)]_vars

\* ------------------------------------------------- properties of the editor
\* the edited buffer of a language in the cleanup result behind ptr
EditedOf(ptr, language) ==
    IF language = "indonesian" THEN ptr[1].edited_indonesian
    ELSE ptr[1].edited_english

CleanedOf(ptr, language) ==
    IF language = "indonesian" THEN ptr[1].cleaned_indonesian
    ELSE ptr[1].cleaned_english

Other(language) == IF language = "indonesian" THEN "english" ELSE "indonesian"

TypedParagraph == Tag("p") \o <<"baru">> \o Tag("/p")

\* C11: when the editor language is switched while a surface is live, the
\* serialized content of the surface is stored in the edited buffer of the
\* language that was active, then the active language changes and the surface
\* is re-initialized with the new language's content; the buffer of the newly
\* active language is not written by the switch.
C11_SwitchCapturesPrevious ==
    [][\A lang \in Languages :
          (/\ lang # currentEditorLanguage
           /\ editorInstance # Null
           /\ SwitchEditorLanguage(lang))
              => /\ EditedOf(cleanupResult', currentEditorLanguage)
                        = Some(editorInstance[1].html)
                 /\ EditedOf(cleanupResult', lang) = EditedOf(cleanupResult, lang)
                 /\ currentEditorLanguage' = lang
                 /\ editorInstance' # Null
                 /\ editorInstance'[1].html
                        = QuillHtml(convertTextToHtml(
                            IF EditedOf(cleanupResult, lang) \notin {Null, Some(<<>>)}
                            THEN EditedOf(cleanupResult, lang)[1]
                            ELSE IF CleanedOf(cleanupResult, lang) \notin {Null, Some(<<>>)}
                            THEN CleanedOf(cleanupResult, lang)[1]
                            ELSE <<>>))]_vars

\* the user typed in Indonesian and switched to English
C11_Witness ==
    /\ section = "editor"
    /\ editorInstance # Null
    /\ currentEditorLanguage = "english"
    /\ cleanupResult[1].edited_indonesian = Some(TypedParagraph)
    /\ cleanupResult[1].edited_english = Null

\* C12: switching from a language to the other one and back, with no edit in
\* between, leaves the surface with exactly the content it held before the
\* round trip.
C12_RoundTrip ==
    (editorInstance # Null /\ cleanupResult # Null) =>
        LET language == currentEditorLanguage
            shown == editorInstance[1].html
            away == Switched(cleanupResult[1], language, shown, Other(language))
            back == Switched(away.result, Other(language), away.html, language)
        IN  back.html = shown

\* Indonesian was loaded from the cleaned text, left for English and activated
\* again
C12_Witness ==
    /\ section = "editor"
    /\ editorInstance # Null
    /\ currentEditorLanguage = "indonesian"
    /\ cleanupResult[1].cleaned_indonesian = Some(<<"halo">>)
    /\ cleanupResult[1].edited_indonesian = Some(Tag("p") \o <<"halo">> \o Tag("/p"))
    /\ cleanupResult[1].edited_english = Some(Tag("p") \o <<"hello">> \o Tag("/p"))
    /\ editorInstance[1].html = Tag("p") \o <<"halo">> \o Tag("/p")

\* the surface was created by this step
SurfaceInitialized ==
    OpenDocumentEditor \/ \E lang \in Languages : SwitchEditorLanguage(lang)

\* C13: when the surface is (re)initialized for a language, the content loaded
\* is that language's edited value if one was populated, also when it was
\* populated with empty content, otherwise the cleaned value, otherwise the
\* empty string; a populated edited value is never bypassed.
C13_EditedValuePreferred ==
    [][SurfaceInitialized =>
          LET edited == EditedOf(cleanupResult', currentEditorLanguage')
              cleaned == CleanedOf(cleanupResult', currentEditorLanguage')
              content == IF edited # Null THEN edited[1]
                         ELSE IF cleaned # Null THEN cleaned[1]
                         ELSE <<>>
          IN  editorInstance'[1].html = QuillHtml(convertTextToHtml(content))]_vars

\* C14: when a save request fails, the two edited and the two cleaned buffers
\* are as they were, the surface is untouched, and the editor status is the
\* error status, never the saved one.
C14_FailedSaveKeepsBuffers ==
    [][\A t \in BagToSet(saves) :
          (saves' # saves /\ \E o \in Failures : SaveResponse(t, o))
              => /\ \A language \in Languages :
                      /\ EditedOf(cleanupResult', language)
                            = EditedOf(cleanupResult, language)
                      /\ CleanedOf(cleanupResult', language)
                            = CleanedOf(cleanupResult, language)
                 /\ editorInstance' = editorInstance
                 /\ liveSurfaces' = liveSurfaces
                 /\ editorStatus' = [text |-> "Error saving", className |-> "error"]]_vars

\* a save of typed content failed: nothing was stored
C14_Witness ==
    /\ section = "editor"
    /\ alerts = 1
    /\ editorStatus.className = "error"
    /\ editorInstance = Some([html |-> TypedParagraph])
    /\ \A language \in Languages : EditedOf(cleanupResult, language) = Null
    /\ saves = EmptyBag

\* C15: when a save request succeeds, the buffer that is updated is the edited
\* buffer of the language sent in the request, and it receives exactly the
\* content sent; the other language's buffer is left alone.  This holds also
\* when the user switched the language while the save was in flight.
C15_SaveUpdatesSentLanguage ==
    [][\A t \in BagToSet(saves) :
          SaveResponse(t, "ok")
              => /\ EditedOf(cleanupResult', t.language) = Some(t.content)
                 /\ EditedOf(cleanupResult', Other(t.language))
                        = EditedOf(cleanupResult, Other(t.language))]_vars

\* C16: at most one editing surface is live at any time, across any sequence
\* of open-editor, language-switch, back-to-cleanup and re-open actions: every
\* creation of a surface is preceded by the release of the previous one.
C16_OneLiveSurface ==
    /\ liveSurfaces \in {0, 1}
    /\ (liveSurfaces = 1) <=> (editorInstance # Null)

\* a surface created by a language switch, after others, is the only one
C16_Witness ==
    /\ section = "editor"
    /\ currentEditorLanguage = "english"
    /\ EditedOf(cleanupResult, "english") = Some(TypedParagraph)
    /\ EditedOf(cleanupResult, "indonesian") # Null
    /\ editorInstance # Null
    /\ liveSurfaces = 1

\* C17: tearing the editor down is idempotent and safe without a live
\* surface: invoked with no live surface it changes nothing, and invoked twice
\* in a row it leaves what one invocation leaves.
C17_TeardownIdempotent ==
    LET once == destroyEditor(editorInstance, liveSurfaces)
        twice == destroyEditor(once.instance, once.surfaces)
    IN  /\ twice = once
        /\ once.instance = Null
        /\ editorInstance = Null
              => once = [instance |-> editorInstance, surfaces |-> liveSurfaces]

\* the editor was opened and left: the next opening tears down with no live
\* surface
C17_Witness ==
    /\ section = "cleanup"
    /\ editorInstance = Null
    /\ liveSurfaces = 0
    /\ editorStatus # InitialStatus

\* C18: exporting issues no backend request and leaves documentId,
\* trainingModule, complianceReport, the active language and the live surface
\* unchanged; with no live surface it does nothing.
C18_ExportFrame ==
    [][ExportToDocx =>
          /\ tasks' = tasks
          /\ saves' = saves
          /\ documentId' = documentId
          /\ trainingModule' = trainingModule
          /\ complianceReport' = complianceReport
          /\ currentEditorLanguage' = currentEditorLanguage
          /\ editorInstance' = editorInstance
          /\ liveSurfaces' = liveSurfaces
          /\ editorInstance = Null => alerts' = 0]_vars

\* the instructions dialog of an export is up, over typed content that was
\* not saved
C18_Witness ==
    /\ section = "editor"
    /\ alerts = 1
    /\ editorStatus = [text |-> "Unsaved changes", className |-> ""]
    /\ editorInstance = Some([html |-> TypedParagraph])
    /\ saves = EmptyBag

\* ------------------------------------------------ properties of the overlay
\* the cleanup view shows the rendering of the session's cleanup result
OverlayRendered ==
    /\ section = "cleanup"
    /\ cleanupResult # Null
    /\ originalContent # <<>>

\* the issues of the session's result whose text occurs in its base text
OccurringIssues ==
    LET result == cleanupResult[1]
    IN  {k \in 1..Len(result.issues) :
            /\ result.issues[k].original_text # <<>>
            /\ Occurrences(result.original_content,
                           result.issues[k].original_text) # {}}

\* where html opens a highlight span as markup
MarkTags(html) ==
    {i \in 1..(Len(html) - 1) : html[i] = "<" /\ html[i + 1] = "mark"}

\* the elements the overlay writes as markup
OverlayTags == {"pre", "/pre", "br", "mark", "/mark"}

\* C19: in the overlay output every `<` and `>` of the base text appears
\* encoded, and the tags of the injected highlight spans appear unencoded:
\* the base text is encoded before the highlight markup is injected.
C19_EncodeBeforeInject ==
    OverlayRendered =>
        /\ \A i \in 1..Len(originalContent) :
              originalContent[i] = "<" =>
                  /\ i < Len(originalContent)
                  /\ originalContent[i + 1] \in OverlayTags
        /\ OccurringIssues # {} => MarkTags(originalContent) # {}

\* what the browser displays for html: the text without the tags, a <br> as a
\* line end, the entities decoded
RECURSIVE VisibleText(_)
VisibleText(html) ==
    IF html = <<>> THEN <<>>
    ELSE IF Head(html) = "<" /\ \E j \in 1..Len(html) : html[j] = ">"
    THEN LET close == CHOOSE j \in 1..Len(html) :
                        html[j] = ">" /\ \A k \in 1..(j - 1) : html[k] # ">"
         IN  (IF html[2] = "br" THEN <<"\n">> ELSE <<>>)
                \o VisibleText(SubSeq(html, close + 1, Len(html)))
    ELSE IF Head(html) = "&" /\ Len(html) >= 3 /\ html[3] = ";"
                /\ html[2] \in {"lt", "gt", "amp"}
    THEN <<CASE html[2] = "lt" -> "<" [] html[2] = "gt" -> ">" [] OTHER -> "&">>
            \o VisibleText(SubSeq(html, 4, Len(html)))
    ELSE <<Head(html)>> \o VisibleText(Tail(html))

\* C20: for a base text that is not empty and issues whose original_text are
\* literal substrings of it, the overlay output, stripped of the injected markup
\* and decoded, equals the base text, and it holds exactly one highlighted
\* region per issue whose text occurs.
C20_TextPreserved ==
    (OverlayRendered /\ cleanupResult[1].original_content # <<>>) =>
        /\ VisibleText(originalContent) = cleanupResult[1].original_content
        /\ Cardinality(MarkTags(originalContent)) = Cardinality(OccurringIssues)

\* the content of the highlight span that html opens at i: what lies between
\* the end of its opening tag and the next closing mark tag
SpanContent(html, i) ==
    LET ends == {j \in i..Len(html) : html[j] = ">"}
        open == CHOOSE j \in ends : \A k \in ends : j <= k
        closes == {j \in (open + 1)..(Len(html) - 2) :
                      SubSeq(html, j, j + 2) = MarkClose}
        close == CHOOSE j \in closes : \A k \in closes : j <= k
    IN  IF ends = {} \/ closes = {} THEN <<>>
        ELSE SubSeq(html, open + 1, close - 1)

\* the issues of the session's result whose text holds a `<` or a `>`
MarkupIssues ==
    {k \in OccurringIssues :
        \E i \in 1..Len(cleanupResult[1].issues[k].original_text) :
            cleanupResult[1].issues[k].original_text[i] \in {"<", ">"}}

\* C21: an issue whose original_text contains `<` or `>` and occurs in the
\* base text is wrapped in a highlight span whose visible content, decoded,
\* equals that original_text.
C21_MarkupIssueHighlighted ==
    OverlayRendered =>
        \A k \in MarkupIssues :
            \E i \in MarkTags(originalContent) :
                VisibleText(SpanContent(originalContent, i))
                    = cleanupResult[1].issues[k].original_text

\* ------------------------------------------- properties of the issue cards
\* the cleanup view shows the cards of the session's cleanup result
CardsRendered ==
    /\ section = "cleanup"
    /\ cleanupResult # Null
    /\ issuesList # <<>>
    /\ cleanupResult[1].issues # <<>>

\* the values of the class attribute of the mark tags written into html
ShownClasses(html) ==
    {html[i + 5] : i \in {j \in 1..(Len(html) - 5) :
                            html[j] = "mark" /\ html[j + 2] = "class"}}

\* C22: terminology, deletion, formatting, party_label, arbitration and
\* signature are sent to six pairwise distinct highlight classes and every
\* other type, a missing one included, to the general class; the label
\* mapping has a label of its own for exactly these six types and sends every
\* other type to the generic label.
C22_TypeMapping ==
    /\ \A t1, t2 \in ListedTypes :
          t1 # t2 => getIssueHighlightClass(t1) # getIssueHighlightClass(t2)
    /\ CardsRendered =>
          \A k \in 1..Len(issuesList) :
              LET type == cleanupResult[1].issues[k].type
                  classes == ShownClasses(originalContent)
              IN  IF type \in ListedTypes
                  THEN /\ issuesList[k].badge # "General"
                       /\ "highlight-general" \notin classes
                  ELSE /\ issuesList[k].badge = "General"
                       /\ classes \subseteq {"highlight-general"}

\* the excerpt the card k displays, as its markup
ShownExcerpt(k) == issuesList[k].text

\* the first n characters of text, all of them if it has fewer
FirstChars(text, n) == SubSeq(text, 1, IF Len(text) < n THEN Len(text) ELSE n)

\* C23: the excerpt of a card is the issue's text unchanged when that has at
\* most 100 characters and its first 100 characters followed by the ellipsis
\* marker when it has more; it is empty for a missing or empty text; the
\* marker is appended iff the text was cut. (The card shows the excerpt
\* encoded, so it is compared with the encoding of what the claim requires.)
C23_Truncation ==
    CardsRendered =>
        \A k \in 1..Len(issuesList) :
            LET text == cleanupResult[1].issues[k].original_text
                cut == escapeHtml(FirstChars(text, DisplayLength)) \o Ellipsis
            IN  /\ Len(text) <= DisplayLength => ShownExcerpt(k) = escapeHtml(text)
                /\ Len(text) > DisplayLength => ShownExcerpt(k) = cut
                /\ text = <<>> => ShownExcerpt(k) = <<>>
                /\ ShownExcerpt(k) = cut <=> Len(text) > DisplayLength

\* a card shows an excerpt that was cut: 100 characters and the marker
C23_Witness ==
    /\ CardsRendered
    /\ Len(cleanupResult[1].issues[1].original_text) = DisplayLength + 1
    /\ LET shown == ShownExcerpt(1)
       IN  /\ Len(shown) > 3
           /\ SubSeq(shown, Len(shown) - 2, Len(shown)) = Ellipsis
           /\ shown = escapeHtml(SubSeq(LongText, 1, DisplayLength)) \o Ellipsis

\* --------------------------------- properties of the promotion of plain text
\* the stored value the surface was initialized from
LoadedContent == ContentToLoad(cleanupResult[1], currentEditorLanguage)

\* C24: plain-text promotion leaves content that starts with a markup
\* delimiter as it is, and it is idempotent: promoting a promoted value
\* changes nothing, so initializing the surface again never wraps twice.
C24_PromotionIdempotent ==
    editorInstance # Null =>
        /\ (LoadedContent # <<>> /\ Head(LoadedContent) = "<") =>
              convertTextToHtml(LoadedContent) = LoadedContent
        /\ convertTextToHtml(convertTextToHtml(LoadedContent))
              = convertTextToHtml(LoadedContent)

\* the surface was initialized from a plain text that the promotion wrapped
C24_Witness ==
    /\ section = "editor"
    /\ editorInstance # Null
    /\ LoadedContent = <<"a">>
    /\ convertTextToHtml(LoadedContent) = Tag("p") \o <<"a">> \o Tag("/p") \o <<"\n">>
    /\ editorInstance[1].html = Tag("p") \o <<"a">> \o Tag("/p")

\* a character of a chunk as the claim requires it in the paragraph: a line
\* break as a line-break element, any other character encoded
BreakOrEscape(c) == IF c = "\n" THEN Tag("br") ELSE EscapeToken(c)

\* the promotion of one chunk as the claim requires it; a heading as the code
\* promotes it
PromotedChunk(para) ==
    IF AllCapitals(para) \/ MarkerNumbered(para) THEN ConvertParagraph(para)
    ELSE Tag("p") \o Flatten([i \in 1..Len(para) |-> BreakOrEscape(para[i])])
            \o Tag("/p") \o <<"\n">>

\* the promotion of a plain text as the claim requires it
PromotedText(text) ==
    LET paragraphs == SplitParagraphs(text, <<>>)
    IN  Flatten([i \in 1..Len(paragraphs) |->
            IF Trim(paragraphs[i]) = <<>> THEN <<>>
            ELSE PromotedChunk(Trim(paragraphs[i]))])

\* text is promoted: it is not empty and does not look like markup
Promoted(text) == Trim(text) # <<>> /\ Head(Trim(text)) # "<"

\* C25: when plain text is promoted, every chunk between blank lines that is
\* not a heading becomes one paragraph in which each line break of the chunk
\* is a line-break element, as markup, and the other characters are encoded.
C25_LineBreaksPreserved ==
    (editorInstance # Null /\ Promoted(LoadedContent)) =>
        convertTextToHtml(LoadedContent) = PromotedText(LoadedContent)

\* ------------------------------------------------- properties of failures
\* the views a delayed success callback shows
SuccessViews == {"cleanup", "module", "report"}

\* C26: every failure of a stage operation, a response of success status
\* without the expected shape included, ends in a surfaced message and the
\* fallback transition: a failed stage request raises one and leaves
\* Processing, and a delayed success callback either shows its view or raises
\* one; no exception leaves a handler or a callback without either.
C26_FailuresSurfaced ==
    [][/\ \A t \in BagToSet(tasks) :
             (StageFailed(t) \/ ReAnalyzeDocumentResponse(t, "malformed")) =>
                 alerts' = 1 /\ section' # "processing"
       /\ \A i \in 1..MaxTimers :
             TimerFire(i) => (section' \in SuccessViews \/ alerts' = 1)]_vars

\* ------------------------------------------ properties of request ordering
\* the request the invocation t awaits was issued by this step
Issued(t) == CopiesIn(t, tasks') > CopiesIn(t, tasks)

\* C27: stages are not pipelined: when a stage request is issued, the
\* response of every stage request issued before it has been received; in the
\* upload pipeline the cleanup fetch is issued by the step that handles the
\* upload response and sets documentId, and the module creation by the step
\* that takes the cleanup response for absence.
C27_NotPipelined ==
    [][\A t \in Tasks :
          Issued(t) =>
              /\ InFlight' = 1
              /\ (t.kind = "startProcess" /\ t.pc = "cleanup") =>
                    /\ \E u \in BagToSet(tasks) : UploadResponse(u, "ok")
                    /\ documentId' = t.doc
              /\ (t.kind = "startProcess" /\ t.pc = "module") =>
                    \E u \in BagToSet(tasks), o \in Failures :
                        PipelineCleanupResponse(u, o)]_vars

\* -------------------------------------------------- properties of retries
\* a request of the invocation t failed in this step
RequestFailed(t) ==
    StageFailed(t) \/ \E o \in Failures : PipelineCleanupResponse(t, o)

\* a save request was issued by this step
SaveIssued == BagCardinality(saves') > BagCardinality(saves)

FirstOccurrence(text, pattern) ==
    CHOOSE i \in Occurrences(text, pattern) :
        \A j \in Occurrences(text, pattern) : i <= j

\* the issues of the session's result whose text occurs more than once in
\* its base text
RepeatedIssues ==
    {k \in OccurringIssues :
        Cardinality(Occurrences(cleanupResult[1].original_content,
                                cleanupResult[1].issues[k].original_text)) > 1}

\* the highlight span that html opens at i wraps text, and what html displays
\* before it is before
WrapsAfter(html, i, before, text) ==
    /\ VisibleText(SubSeq(html, 1, i - 1)) = before
    /\ VisibleText(SpanContent(html, i)) = text

\* C29: for an issue whose original_text occurs several times in the base
\* text, the first occurrence in the base text is wrapped in a highlight and
\* no later occurrence is: every span that wraps that text stands where the
\* first occurrence stands.
C29_FirstOccurrenceOnly ==
    OverlayRendered =>
        \A k \in RepeatedIssues :
            LET base == cleanupResult[1].original_content
                text == cleanupResult[1].issues[k].original_text
                before == SubSeq(base, 1, FirstOccurrence(base, text) - 1)
            IN  /\ \E i \in MarkTags(originalContent) :
                      WrapsAfter(originalContent, i, before, text)
                /\ \A i \in MarkTags(originalContent) :
                      VisibleText(SpanContent(originalContent, i)) = text
                          => WrapsAfter(originalContent, i, before, text)

\* ------------------------------------------ properties of the issue order
\* Every replacement of the issues, taken in list order on text, matches
\* untouched base text: none of the places it replaces is in touched, the
\* places of text that an earlier replacement wrote (the tags, the attributes
\* and the wrapped fragment of a span).
RECURSIVE MatchesInBase(_, _, _)
MatchesInBase(text, touched, issues) ==
    IF issues = <<>> THEN TRUE
    ELSE LET pattern == Head(issues).original_text
         IN  IF pattern = <<>> \/ Occurrences(text, pattern) = {}
             THEN MatchesInBase(text, touched, Tail(issues))
             ELSE LET i == FirstOccurrence(text, pattern)
                      next == HighlightIssue(text, Head(issues))
                      grown == Len(next) - Len(text)
                      written == i..(i + Len(pattern) + grown - 1)
                      kept == {j \in touched : j < i}
                      moved == {j + grown : j \in {x \in touched : x >= i + Len(pattern)}}
                  IN  /\ (i..(i + Len(pattern) - 1)) \cap touched = {}
                      /\ MatchesInBase(next, kept \cup written \cup moved, Tail(issues))

\* C30: processing the issues in list order, the replacement for a later issue
\* matches text of the base document only, never text of the tag, the class
\* attribute or the tooltip injected for an earlier issue nor text an earlier
\* span wraps, so that spans are not nested and markup is not corrupted.
C30_NoDoubleWrap ==
    OverlayRendered =>
        /\ originalContent = renderCleanupResults(cleanupResult[1])
        /\ MatchesInBase(cleanupResult[1].original_content, {},
                         cleanupResult[1].issues)

\* ------------------------------------------- properties of the whole session
\* a fetch of a stage or of a list was answered in this step
FetchAnswered == \E t \in BagToSet(tasks) : Handled(t)

\* the fields of a cleanup result that are not edited buffers
FetchedFields ==
    {"document_id", "original_content", "cleaned_indonesian", "cleaned_english",
     "issues"}

\* C31: the only fields of the session's value objects that are written in
\* place are the edited buffers of the cleanup result; every other field of the
\* cleanup result, and the training module and the compliance report, change
\* only in a step that answers a fetch and replaces the object.
C31_OnlyEditedWrittenInPlace ==
    [][/\ (cleanupResult' # cleanupResult /\ ~FetchAnswered) =>
              /\ cleanupResult # Null
              /\ cleanupResult' # Null
              /\ \A f \in FetchedFields : cleanupResult'[1][f] = cleanupResult[1][f]
       /\ (cleanupResult' # cleanupResult /\ FetchAnswered) =>
              \E d \in Docs : cleanupResult' = Some(serverCleanups[d])
       /\ trainingModule' # trainingModule => FetchAnswered
       /\ complianceReport' # complianceReport => FetchAnswered]_vars

\* an edited buffer was written in place, and a module and a report are held
C31_Witness ==
    /\ cleanupResult # Null
    /\ \E d \in Docs : cleanupResult[1].document_id = d
                          /\ cleanupResult # Some(serverCleanups[d])
    /\ trainingModule # Null
    /\ complianceReport # Null

\* C32: in every reachable state in which the displayed section is not the
\* editor, no editing surface is live, whichever way the editor was left.
C32_SurfaceReleasedOutsideEditor ==
    section # "editor" => (editorInstance = Null /\ liveSurfaces = 0)

\* the handler of the invocation t ended in its catch block in this step
StageThrew(t) == Handled(t) /\ alerts' = 1

\* C33: a failed stage request leaves the value objects of the session as they
\* were; a failed cleanup re-run returns to the cleanup view with the stale
\* result, a failed review leaves the report, and a failed module creation or
\* module fetch leaves the training module.
C33_FailureLeavesObjects ==
    [][\A t \in BagToSet(tasks) :
          StageThrew(t) =>
              /\ UNCHANGED <<trainingModule, complianceReport, cleanupResult>>
              /\ t.kind = "rerunCleanup" => section' = "cleanup"]_vars

\* the response of the save t arrives while the surface still shows, in the
\* language of the save, the content the save sent
SaveCompleted(t) ==
    /\ t.language = currentEditorLanguage
    /\ t.content = editorInstance[1].html
    /\ \E o \in ModuleOutcomes : SaveResponse(t, o)

\* C34: right after a save has completed, with success or with failure, and
\* right after an export, with a live surface, the edited buffer of the active
\* language equals the serialized content of the surface, and the active
\* language is the one it was.
C34_SaveAndExportCapture ==
    [][(/\ editorInstance # Null
        /\ cleanupResult # Null
        /\ ExportToDocx \/ \E t \in BagToSet(saves) : SaveCompleted(t))
          => /\ EditedOf(cleanupResult', currentEditorLanguage)
                    = Some(editorInstance'[1].html)
             /\ currentEditorLanguage' = currentEditorLanguage]_vars

\* C35: a click on the tab of the language that is already active, with a live
\* surface, stores the content of the surface in the buffer of that language
\* and loads the surface from that buffer again: the content shown, the active
\* language and the buffer of the other language are what they were.
C35_SameLanguageRefresh ==
    [][\A lang \in Languages :
          (/\ lang = currentEditorLanguage
           /\ editorInstance # Null
           /\ cleanupResult # Null
           /\ SwitchEditorLanguage(lang))
              => /\ EditedOf(cleanupResult', lang) = Some(editorInstance[1].html)
                 /\ editorInstance' = editorInstance
                 /\ currentEditorLanguage' = lang
                 /\ EditedOf(cleanupResult', Other(lang))
                        = EditedOf(cleanupResult, Other(lang))]_vars

\* the user typed in Indonesian and clicked the Indonesian tab
C35_Witness ==
    /\ section = "editor"
    /\ editorInstance = Some([html |-> TypedParagraph])
    /\ currentEditorLanguage = "indonesian"
    /\ cleanupResult[1].edited_indonesian = Some(TypedParagraph)
    /\ cleanupResult[1].cleaned_indonesian = Some(<<"halo">>)
    /\ cleanupResult[1].edited_english = Null
    /\ editorStatus = Status("Ready", "")

\* C36: in every reachable state in which the cleanup view or the editor is
\* displayed, the cleanup result held is the one of the current documentId, so
\* that a save issued from the editor for documentId carries content of that
\* document.
C36_CleanupOfCurrentDocument ==
    section \in {"cleanup", "editor"} =>
        /\ cleanupResult # Null
        /\ cleanupResult[1].document_id = documentId

\* the views of the navigation items
NavigationViews == {"upload", "history", "documents"}

\* C37: a delayed success callback never replaces a view the user navigated to
\* after the response arrived: while Upload, History or Documents is displayed,
\* the firing of a timer leaves the displayed section as it is.
C37_TimerKeepsNavigatedView ==
    [][(section \in NavigationViews /\ Fire) => section' = section]_vars

\* C38: the status never goes back to Ready while the surface holds changes
\* made after the last successful save: when the status shows Unsaved changes
\* on a live surface, the callback scheduled by a successful save leaves it.
C38_UnsavedSurvivesReset ==
    [][(/\ editorInstance # Null
        /\ editorStatus = Status("Unsaved changes", "")
        /\ StatusReset)
          => editorStatus' = editorStatus]_vars

\* C39: edits are not lost by leaving the editor: after Back to cleanup, what
\* the editor loads for the language that was active when it is opened again
\* is the content the surface held when the editor was left.
C39_EditsSurviveLeaving ==
    [][(/\ editorInstance # Null
        /\ cleanupResult # Null
        /\ BackToCleanup)
          => LoadedHtml(cleanupResult'[1], currentEditorLanguage)
                = editorInstance[1].html]_vars

\* C40: a failed open-existing fetch leaves documentId, trainingModule,
\* complianceReport and cleanupResult as they were before the open action. In a
\* session that only opened existing results, where a successful open leaves
\* the object it fetched, this means: as long as no object is held and no fetch
\* is pending, every open so far has failed and documentId is still unset.
C40_FailedOpenLeavesSession ==
    (/\ InFlight = 0
     /\ trainingModule = Null
     /\ complianceReport = Null
     /\ cleanupResult = Null)
        => documentId = 0

====
